---- MODULE Spec2Model ----
(***************************************************************************)
(* A model of two parts of google-cloud-go:                                *)
(*   - auth/credentials/impersonate: NewIDTokenCredentials and the         *)
(*     impersonated ID token provider behind a cached token provider;      *)
(*   - maps/fleetengine/delivery/apiv1: the DeliveryVehicle and Task       *)
(*     iterators.                                                          *)
(* Three specifications share the module: Spec (concurrent getToken calls  *)
(* on one credential), SpecNew (construction and one fetch of a provider,  *)
(* over many configurations and HTTP responses) and SpecIter (iterators).  *)
(***************************************************************************)
EXTENDS Integers, Sequences, FiniteSets, TLC

\* ------------------------------------------------------------- bounds
NumCalls == 3        \* concurrent getToken calls on one credential
MaxClock == 3        \* the clock runs 0..MaxClock
MaxDelegates == 2    \* longest delegate chain in an IDTokenOptions
MaxPages == 2        \* pages a list endpoint serves
MaxPageSize == 2     \* items in one page

\* One clock unit is 30 minutes: a token is good for one hour.
TokenLifetime == 2

\* ------------------------------------------------------------ strings
\* An identity string is the sequence of its parts, so that "starts with the
\* resource prefix" is a test on the first part; "" is the empty sequence.
SAPrefix == "projects/-/serviceAccounts/"
iamCredentialsEndpoint == "https://iamcredentials.googleapis.com"

formatIAMServiceAccountName(name) ==
    IF Len(name) > 0 /\ name[1] = SAPrefix THEN name ELSE <<SAPrefix>> \o name

\* ------------------------------------------------------------- errors
\* An error value: its kind, its message, and what the message formats in
\* (%d: a status code, %s: a response body, %w: a wrapped cause).
NoFields == [k \in {} |-> [type |-> "", val |-> ""]]
NoBody == [wellformed |-> FALSE, text |-> "", fields |-> NoFields]
NoErr == [kind |-> "nil", msg |-> "", code |-> 0, body |-> NoBody, cause |-> ""]
Errorf(kind, msg, code, body, cause) ==
    [kind |-> kind, msg |-> msg, code |-> code, body |-> body, cause |-> cause]

\* ------------------------------------------------------------- tokens
\* *auth.Token: nil, or a token with its Value and Expiry.
NilToken == [nil |-> TRUE, Value |-> "", Expiry |-> 0]

\* -------------------------------------------------- IDTokenOptions.validate
validateNoTarget(o) ==
    IF o.nil THEN Errorf("validation", "impersonate: options must be provided", 0, NoBody, "")
    ELSE IF o.Audience = "" THEN
        Errorf("validation", "impersonate: audience must be provided", 0, NoBody, "")
    ELSE NoErr

validate(o) ==
    IF o.nil THEN Errorf("validation", "impersonate: options must be provided", 0, NoBody, "")
    ELSE IF o.Audience = "" THEN
        Errorf("validation", "impersonate: audience must be provided", 0, NoBody, "")
    ELSE IF o.TargetPrincipal = <<>> THEN
        Errorf("validation", "impersonate: target service account must be provided", 0, NoBody, "")
    ELSE NoErr

\* ------------------------------------------------- NewIDTokenCredentials
\* The provider the constructor fills in (impersonatedIDTokenProvider).
ZeroProvider ==
    [targetPrincipal |-> <<>>, audience |-> "", includeEmail |-> FALSE, delegates |-> <<>>]

\* for _, v := range opts.Delegates { append(..., formatIAMServiceAccountName(v)) }
appendDelegatesReversed(ds) ==
    [i \in 1..Len(ds) |-> formatIAMServiceAccountName(ds[Len(ds) + 1 - i])]

appendDelegates(ds) ==
    [i \in 1..Len(ds) |-> formatIAMServiceAccountName(ds[i])]

NilCredentials ==
    [nil |-> TRUE,
     TokenProvider |-> [cached |-> FALSE, tp |-> ZeroProvider],
     UniverseDomainProvider |-> "nil"]

\* What the constructor returns, with the collaborator calls it made on the
\* way (credentials.DetectDefault, httptransport.NewClient), in order.
\* e.adc: Application Default Credentials can be detected;
\* e.transport: httptransport.NewClient succeeds.
\* newProvider: the impersonatedIDTokenProvider of lines 119-128.
newProvider(o) ==
    [targetPrincipal |-> o.TargetPrincipal,
     audience        |-> o.Audience,
     includeEmail    |-> o.IncludeEmail,
     delegates       |-> appendDelegates(o.Delegates)]

\* resolveClient: lines 94-117, the client and the base credentials.
resolveClient(o, e) ==
    LET detect == o.Client = "nil" /\ o.Credentials = "nil"
        build  == o.Client = "nil"
    IN  IF detect /\ ~e.adc
        THEN [err   |-> Errorf("detect", "credentials: could not find default credentials", 0, NoBody, ""),
              creds |-> "nil",
              calls |-> <<"DetectDefault">>]
        ELSE IF build /\ ~e.transport
        THEN [err   |-> Errorf("newclient", "httptransport: unable to create client", 0, NoBody, ""),
              creds |-> "nil",
              calls |-> (IF detect THEN <<"DetectDefault">> ELSE <<>>) \o <<"NewClient">>]
        ELSE [err   |-> NoErr,
              creds |-> IF detect THEN "detected" ELSE o.Credentials,
              calls |-> (IF detect THEN <<"DetectDefault">> ELSE <<>>)
                        \o (IF build THEN <<"NewClient">> ELSE <<>>)]

NewIDTokenCredentialsUncached(o, e) ==
    IF validate(o) # NoErr
    THEN [creds |-> NilCredentials, err |-> validate(o), calls |-> <<>>]
    ELSE IF resolveClient(o, e).err # NoErr
    THEN [creds |-> NilCredentials, err |-> resolveClient(o, e).err,
          calls |-> resolveClient(o, e).calls]
    ELSE [creds |-> [nil |-> FALSE,
                     TokenProvider |-> [cached |-> FALSE, tp |-> newProvider(o)],
                     UniverseDomainProvider |-> resolveClient(o, e).creds],
          err   |-> NoErr,
          calls |-> resolveClient(o, e).calls]

NewIDTokenCredentials(o, e) ==
    IF validate(o) # NoErr
    THEN [creds |-> NilCredentials, err |-> validate(o), calls |-> <<>>]
    ELSE IF resolveClient(o, e).err # NoErr
    THEN [creds |-> NilCredentials, err |-> resolveClient(o, e).err,
          calls |-> resolveClient(o, e).calls]
    ELSE [creds |-> [nil |-> FALSE,
                     TokenProvider |-> [cached |-> TRUE, tp |-> newProvider(o)],
                     UniverseDomainProvider |-> resolveClient(o, e).creds],
          err   |-> NoErr,
          calls |-> resolveClient(o, e).calls]

\* --------------------------------------------------------------- JSON
\* json.Marshal(generateIDTokenRequest{...}): the JSON object as a record;
\* `delegates` carries omitempty.
generateIDTokenRequest(i) ==
    IF Len(i.delegates) = 0
    THEN [audience |-> i.audience, includeEmail |-> i.includeEmail]
    ELSE [audience |-> i.audience, includeEmail |-> i.includeEmail,
          delegates |-> i.delegates]

\* A response body: text that is well-formed JSON or not; when it is a JSON
\* object, `fields` maps each key to the JSON type and text of its value.
BodyToken(v) == [wellformed |-> TRUE, text |-> "{token: <v>}",
                 fields |-> ("token" :> [type |-> "string", val |-> v])]
BodyEmptyObject == [wellformed |-> TRUE, text |-> "{}", fields |-> NoFields]
BodyNullToken == [wellformed |-> TRUE, text |-> "{token: null}",
                  fields |-> ("token" :> [type |-> "null", val |-> ""])]
BodyNumberToken == [wellformed |-> TRUE, text |-> "{token: 123}",
                    fields |-> ("token" :> [type |-> "number", val |-> "123"])]
BodyErrorObject == [wellformed |-> TRUE, text |-> "{error: {...}}",
                    fields |-> ("error" :> [type |-> "object", val |-> "permission denied"])]
BodyText == [wellformed |-> FALSE, text |-> "permission denied", fields |-> NoFields]

\* json.Unmarshal(body, &generateIDTokenResponse{}): a syntax error for text
\* that is not JSON, a type error for a `token` that is not a string; an
\* absent or null `token` leaves the field at its zero value and is no error.
generateIDTokenResponse(body) ==
    IF ~body.wellformed THEN [err |-> "invalid character", Token |-> ""]
    ELSE IF "token" \notin DOMAIN body.fields THEN [err |-> "", Token |-> ""]
    ELSE IF body.fields["token"].type = "string"
         THEN [err |-> "", Token |-> body.fields["token"].val]
    ELSE IF body.fields["token"].type = "null" THEN [err |-> "", Token |-> ""]
    ELSE [err |-> "cannot unmarshal into Go struct field", Token |-> ""]

\* ------------------------------------------- impersonatedIDTokenProvider.Token
\* The request Token sends: POST <endpoint>/v1/<name>:generateIdToken.
TokenRequest(i) ==
    [method |-> "POST",
     url    |-> <<iamCredentialsEndpoint, "/v1/">>
                \o formatIAMServiceAccountName(i.targetPrincipal)
                \o <<":generateIdToken">>,
     contentType |-> "application/json",
     body   |-> generateIDTokenRequest(i)]

\* internal.DoRequest's outcome: a transport error (cause # ""), or a status
\* code and a body.
TransportError(cause) == [cause |-> cause, StatusCode |-> 0, body |-> BodyText]
Response(code, body) == [cause |-> "", StatusCode |-> code, body |-> body]

\* time.Now().Add(1 * time.Hour)
TokenExpiryPast(t) == t - TokenLifetime
TokenExpiryNow(t) == t
TokenExpiry(t) == t + TokenLifetime

\* Token mutants: the status test loosened; the transport error dropped.
TokenStatusUnchecked(i, resp, t) ==
    IF resp.cause # ""
    THEN [tok |-> NilToken,
          err |-> Errorf("transport", "impersonate: unable to generate ID token", 0, NoBody, resp.cause)]
    ELSE LET r == generateIDTokenResponse(resp.body) IN
         IF r.err # ""
         THEN [tok |-> NilToken,
               err |-> Errorf("decode", "impersonate: unable to parse response", 0, NoBody, r.err)]
         ELSE [tok |-> [nil |-> FALSE, Value |-> r.Token, Expiry |-> TokenExpiry(t)],
               err |-> NoErr]

TokenErrIgnored(i, resp, t) ==
    LET r == generateIDTokenResponse(IF resp.cause # "" THEN BodyEmptyObject ELSE resp.body) IN
    IF resp.cause = "" /\ (resp.StatusCode < 200 \/ resp.StatusCode > 299)
    THEN [tok |-> NilToken,
          err |-> Errorf("status", "impersonate: status code", resp.StatusCode, resp.body, "")]
    ELSE IF r.err # ""
    THEN [tok |-> NilToken,
          err |-> Errorf("decode", "impersonate: unable to parse response", 0, NoBody, r.err)]
    ELSE [tok |-> [nil |-> FALSE, Value |-> r.Token, Expiry |-> TokenExpiry(t)],
          err |-> NoErr]

TokenStatusOffByOne(i, resp, t) ==
    IF resp.cause # ""
    THEN [tok |-> NilToken,
          err |-> Errorf("transport", "impersonate: unable to generate ID token", 0, NoBody, resp.cause)]
    ELSE IF resp.StatusCode < 200 \/ resp.StatusCode > 300
    THEN [tok |-> NilToken,
          err |-> Errorf("status", "impersonate: status code", resp.StatusCode, resp.body, "")]
    ELSE LET r == generateIDTokenResponse(resp.body) IN
         IF r.err # ""
         THEN [tok |-> NilToken,
               err |-> Errorf("decode", "impersonate: unable to parse response", 0, NoBody, r.err)]
         ELSE [tok |-> [nil |-> FALSE, Value |-> r.Token, Expiry |-> TokenExpiry(t)],
               err |-> NoErr]

\* Token(ctx): resp is what DoRequest answers (a cancelled ctx makes it a
\* transport error whose cause is the context's); t is time.Now() at return.
Token(i, resp, t) ==
    IF resp.cause # ""
    THEN [tok |-> NilToken,
          err |-> Errorf("transport", "impersonate: unable to generate ID token", 0, NoBody, resp.cause)]
    ELSE IF resp.StatusCode < 200 \/ resp.StatusCode > 299
    THEN [tok |-> NilToken,
          err |-> Errorf("status", "impersonate: status code", resp.StatusCode, resp.body, "")]
    ELSE LET r == generateIDTokenResponse(resp.body) IN
         IF r.err # ""
         THEN [tok |-> NilToken,
               err |-> Errorf("decode", "impersonate: unable to parse response", 0, NoBody, r.err)]
         ELSE [tok |-> [nil |-> FALSE, Value |-> r.Token, Expiry |-> TokenExpiry(t)],
               err |-> NoErr]

\* ================================================================ state
VARIABLES
    \* construction
    opts,          \* the *IDTokenOptions given to NewIDTokenCredentials
    env,           \* what the environment offers the constructor
    ctor,          \* what NewIDTokenCredentials returned (called: it has run)
    \* one uncached fetch of the provider (SpecNew)
    sent,          \* <<>> or <<r>>: the request the last Token call sent
    got,           \* <<>> or <<r>>: what DoRequest answered it
    out,           \* what that Token call returned
    \* the credential's cached token provider (Spec)
    now,           \* the clock
    cachedToken,   \* the cache slot
    fetcher,       \* the call holding the refresh (0: none in flight)
    pc,            \* per call: idle, waiting, fetching, done
    ctxDone,       \* per call: its context was cancelled or timed out
    outcome,       \* per call: "" or, returned, "token" or "error"
    returned,      \* the latest return of getToken: the call, its token, its error
    live,          \* the tokens handed out whose expiry has not come
    request,       \* per call: <<>> or the request in flight
    reply,         \* per call: <<>> or the answer DoRequest has ready
    overlap,       \* per call: it waited while another call's fetch ran
    lastFetched,   \* the token of the latest Token call that succeeded
    cycleFetches,  \* Token calls begun since the cache last went empty/expired
    cycleFailures, \* Token calls failed since then
    \* the iterators (SpecIter)
    pages,         \* the page sizes the list endpoint serves, in order
    failAt,        \* the fetch (by number) that fails, 0: none
    items,         \* per iterator: its buffer
    pageInfo,      \* per iterator: iterator.PageInfo's Token, atEnd, err
    fetched,       \* per iterator: every item InternalFetch has handed over
    delivered,     \* per iterator: every item Next has returned
    lastNext,      \* per iterator: what the latest Next returned
    doneSeen       \* per iterator: some Next has returned iterator.Done

ctorVars == <<opts, env, ctor>>
fetchVars == <<sent, got, out>>
cacheVars == <<now, cachedToken, fetcher, pc, ctxDone, outcome, returned, live,
               request, reply,
               overlap, lastFetched, cycleFetches, cycleFailures>>
iterVars == <<pages, failAt, items, pageInfo, fetched, delivered, lastNext, doneSeen>>
vars == <<ctorVars, fetchVars, cacheVars, iterVars>>

Calls == 1..NumCalls
Iterators == {"DeliveryVehicleIterator", "TaskIterator"}

\* ------------------------------------------------------------ inputs
DelegateNames == {<<"a@y">>, <<"b@x">>, <<SAPrefix, "a@y">>}
DelegateChains == UNION {[1..n -> DelegateNames] : n \in 0..MaxDelegates}
AllOptions ==
    [nil : {FALSE}, Audience : {"", "https://svc.example"},
     TargetPrincipal : {<<>>, <<"sa@project">>, <<SAPrefix, "sa@project">>},
     IncludeEmail : BOOLEAN, Delegates : DelegateChains,
     Credentials : {"nil", "given"}, Client : {"nil", "given"}]
NilOptions ==
    [nil |-> TRUE, Audience |-> "", TargetPrincipal |-> <<>>, IncludeEmail |-> FALSE,
     Delegates |-> <<>>, Credentials |-> "nil", Client |-> "nil"]
Environments == [adc : BOOLEAN, transport : BOOLEAN]

\* The configuration of the credential the getToken calls of Spec share.
SharedOptions ==
    [nil |-> FALSE, Audience |-> "https://svc.example",
     TargetPrincipal |-> <<"sa@project">>, IncludeEmail |-> TRUE,
     Delegates |-> << <<"b@x">>, <<"a@y">> >>,
     Credentials |-> "nil", Client |-> "nil"]

StatusCodes == {199, 200, 201, 299, 300, 403}
Bodies == {BodyToken("abc123"), BodyEmptyObject, BodyNullToken, BodyNumberToken,
           BodyErrorObject, BodyText}
\* Every DoRequest outcome SpecNew tries.
AllResponses ==
    {Response(c, b) : c \in StatusCodes, b \in Bodies}
    \cup {TransportError("connection reset"), TransportError("context canceled")}
\* The outcomes the endpoint gives the calls of Spec.
SharedResponses ==
    {Response(200, BodyToken("abc123")), Response(200, BodyToken("t2")),
     Response(403, BodyErrorObject), Response(200, BodyText),
     TransportError("connection reset")}
CtxCauses == {"context canceled", "context deadline exceeded"}

NoResult == [tok |-> NilToken, err |-> NoErr]
NotCalled == [called |-> FALSE, creds |-> NilCredentials, err |-> NoErr, calls |-> <<>>]
Called(r) == [called |-> TRUE, creds |-> r.creds, err |-> r.err, calls |-> r.calls]

InitFetch == sent = <<>> /\ got = <<>> /\ out = NoResult
InitCache ==
    /\ now = 0
    /\ cachedToken = NilToken
    /\ fetcher = 0
    /\ pc = [p \in Calls |-> "idle"]
    /\ ctxDone = [p \in Calls |-> FALSE]
    /\ outcome = [p \in Calls |-> ""]
    /\ returned = [call |-> 0, tok |-> NilToken, err |-> NoErr]
    /\ live = {}
    /\ request = [p \in Calls |-> <<>>]
    /\ reply = [p \in Calls |-> <<>>]
    /\ overlap = [p \in Calls |-> FALSE]
    /\ lastFetched = NilToken
    /\ cycleFetches = 0
    /\ cycleFailures = 0
InitIterIdle ==
    /\ pages = <<>>
    /\ failAt = 0
    /\ items = [it \in Iterators |-> <<>>]
    /\ pageInfo = [it \in Iterators |-> [Token |-> 0, atEnd |-> FALSE, err |-> "nil"]]
    /\ fetched = [it \in Iterators |-> <<>>]
    /\ delivered = [it \in Iterators |-> <<>>]
    /\ lastNext = [it \in Iterators |-> [item |-> 0, err |-> "nil"]]
    /\ doneSeen = [it \in Iterators |-> FALSE]

\* ====================================================== SpecNew: construction
\* NewIDTokenCredentials(opts) runs, once.
New ==
    /\ ~ctor.called
    /\ ctor' = Called(NewIDTokenCredentials(opts, env))
    /\ UNCHANGED <<opts, env, fetchVars, cacheVars, iterVars>>

\* The provider's Token runs once, start to end: it sends its request,
\* DoRequest answers resp, and Token returns.
Fetch(resp) ==
    /\ ctor.called /\ ~ctor.creds.nil
    /\ sent' = <<TokenRequest(ctor.creds.TokenProvider.tp)>>
    /\ got' = <<resp>>
    /\ out' = Token(ctor.creds.TokenProvider.tp, resp, now)
    /\ UNCHANGED <<ctorVars, cacheVars, iterVars>>

InitNew ==
    /\ opts \in AllOptions \cup {NilOptions}
    /\ env \in Environments
    /\ ctor = NotCalled
    /\ InitFetch /\ InitCache /\ InitIterIdle

NextNew ==
    \/ New
    \/ \E resp \in AllResponses : Fetch(resp)

SpecNew == InitNew /\ [][NextNew]_vars

\* =================================================== Spec: the cached provider
\* The TokenProvider the credential holds: auth.NewCachedTokenProvider(itp, nil)
\* keeps one token and refreshes it under a lock, one fetch at a time.
Provider == ctor.creds.TokenProvider

\* The cached token can still be handed out at time t.
Valid(tok, t) == ~tok.nil /\ t < tok.Expiry

\* getToken returns (tok, err) to call p.
Return(p, tok, err) ==
    /\ outcome' = [outcome EXCEPT ![p] = IF err = NoErr THEN "token" ELSE "error"]
    /\ returned' = [call |-> p, tok |-> tok, err |-> err]
    /\ live' = IF err = NoErr /\ ~tok.nil THEN live \cup {tok} ELSE live

\* A call of getToken begins; it queues for the cache. Calls are numbered in
\* the order they begin.
GetToken(p) ==
    /\ ~ctor.creds.nil
    /\ pc[p] = "idle"
    /\ p > 1 => pc[p - 1] # "idle"
    /\ pc' = [pc EXCEPT ![p] = "waiting"]
    /\ overlap' = [overlap EXCEPT ![p] = fetcher # 0]
    /\ UNCHANGED <<ctorVars, fetchVars, iterVars, now, cachedToken, fetcher, ctxDone,
                   outcome, returned, live, request, reply, lastFetched, cycleFetches,
                   cycleFailures>>

\* The call gets the cache to itself: it returns the cached token, or starts
\* the provider's Token (which sends its request) and keeps the others out.
\* A provider that is not cached is called straight through.
Lookup(p) ==
    /\ pc[p] = "waiting"
    /\ Provider.cached => fetcher = 0
    /\ IF Provider.cached /\ Valid(cachedToken, now)
       THEN /\ Return(p, cachedToken, NoErr)
            /\ pc' = [pc EXCEPT ![p] = "done"]
            /\ UNCHANGED <<fetcher, request, overlap, cycleFetches>>
       ELSE /\ pc' = [pc EXCEPT ![p] = "fetching"]
            /\ fetcher' = IF Provider.cached THEN p ELSE fetcher
            /\ request' = [request EXCEPT ![p] = <<TokenRequest(Provider.tp)>>]
            /\ overlap' = [q \in Calls |-> overlap[q] \/ (q # p /\ pc[q] = "waiting")]
            /\ cycleFetches' = cycleFetches + 1
            /\ UNCHANGED <<outcome, returned, live>>
    /\ UNCHANGED <<ctorVars, fetchVars, iterVars, now, cachedToken, ctxDone, reply,
                   lastFetched, cycleFailures>>

\* The endpoint (or the transport) answers the request in flight.
ServerReply(p, resp) ==
    /\ pc[p] = "fetching" /\ reply[p] = <<>>
    /\ reply' = [reply EXCEPT ![p] = <<resp>>]
    /\ UNCHANGED <<ctorVars, fetchVars, iterVars, now, cachedToken, fetcher, pc, ctxDone,
                   outcome, returned, live, request, overlap, lastFetched, cycleFetches,
                   cycleFailures>>

\* Token returns with what DoRequest answered; the cache stores a token and
\* passes an error on, and the call returns.
Finish(p, resp) ==
    LET r == Token(Provider.tp, resp, now) IN
    /\ Return(p, r.tok, r.err)
    /\ pc' = [pc EXCEPT ![p] = "done"]
    /\ request' = [request EXCEPT ![p] = <<>>]
    /\ reply' = [reply EXCEPT ![p] = <<>>]
    /\ fetcher' = IF fetcher = p THEN 0 ELSE fetcher
    /\ lastFetched' = IF r.err = NoErr THEN r.tok ELSE lastFetched
    /\ cachedToken' = IF r.err = NoErr /\ Provider.cached THEN r.tok ELSE cachedToken
    /\ cycleFailures' = IF r.err = NoErr THEN cycleFailures ELSE cycleFailures + 1
    /\ UNCHANGED <<ctorVars, fetchVars, iterVars, now, overlap, cycleFetches>>

FetchReturn(p) ==
    /\ pc[p] = "fetching" /\ reply[p] # <<>>
    /\ Finish(p, reply[p][1])
    /\ UNCHANGED ctxDone

\* The context of the call that is fetching ends: DoRequest gives up with the
\* context's error, whatever the endpoint had answered.
CancelFetching(p, cause) ==
    /\ pc[p] = "fetching"
    /\ ctxDone' = [ctxDone EXCEPT ![p] = TRUE]
    /\ Finish(p, TransportError(cause))

\* The context of a call that is waiting for the cache ends: the call returns
\* the context's error and leaves the cache alone.
CancelWaiting(p, cause) ==
    /\ pc[p] = "waiting"
    /\ ctxDone' = [ctxDone EXCEPT ![p] = TRUE]
    /\ pc' = [pc EXCEPT ![p] = "done"]
    /\ Return(p, NilToken, Errorf("cancelled", "", 0, NoBody, cause))
    /\ UNCHANGED <<ctorVars, fetchVars, iterVars, now, cachedToken, fetcher, request,
                   reply, overlap, lastFetched, cycleFetches, cycleFailures>>

\* Time passes. The step on which the cached token expires opens a new
\* refresh cycle.
Tick ==
    /\ now < MaxClock
    /\ now' = now + 1
    /\ IF Valid(cachedToken, now) /\ ~Valid(cachedToken, now + 1)
       THEN cycleFetches' = 0 /\ cycleFailures' = 0
       ELSE UNCHANGED <<cycleFetches, cycleFailures>>
    /\ live' = {t \in live : now + 1 < t.Expiry}
    /\ UNCHANGED <<ctorVars, fetchVars, iterVars, cachedToken, fetcher, pc, ctxDone,
                   outcome, returned, request, reply, overlap, lastFetched>>

Init ==
    /\ opts = SharedOptions
    /\ env = [adc |-> TRUE, transport |-> TRUE]
    /\ ctor = Called(NewIDTokenCredentials(opts, env))
    /\ InitFetch /\ InitCache /\ InitIterIdle

Next ==
    \/ \E p \in Calls : GetToken(p)
    \/ \E p \in Calls : Lookup(p)
    \/ \E p \in Calls, resp \in SharedResponses : ServerReply(p, resp)
    \/ \E p \in Calls : FetchReturn(p)
    \/ \E p \in Calls, cause \in CtxCauses : CancelFetching(p, cause)
    \/ \E p \in Calls, cause \in CtxCauses : CancelWaiting(p, cause)
    \/ Tick

Spec == Init /\ [][Next]_vars

\* ====================================================== SpecIter: iterators
\* The list endpoint serves `pages`: page k holds pages[k] items, numbered on
\* from the pages before it. A page token is the number of pages served so
\* far, and 0 is the empty token (the start, and "no more results").
RECURSIVE itemsBefore(_)
itemsBefore(k) == IF k <= 1 THEN 0 ELSE itemsBefore(k - 1) + pages[k - 1]
pageItems(k) == [j \in 1..pages[k] |-> itemsBefore(k) + j]

\* InternalFetch(pageSize, pageToken): the results of one RPC, the next page
\* token (empty when there are no more results), or the RPC's error.
InternalFetch(pageToken) ==
    LET k == pageToken + 1 IN
    IF failAt = k THEN [results |-> <<>>, nextPageToken |-> 0, err |-> "rpc error"]
    ELSE [results |-> pageItems(k),
          nextPageToken |-> IF k < Len(pages) THEN k ELSE 0,
          err |-> "nil"]

\* An iterator with its PageInfo: st.items is the buffer; st.Token, st.atEnd
\* and st.err are the PageInfo's; st.fetched lists what fetch has appended.
bufLen(st) == Len(st.items)
takeBuf(st) == [st EXCEPT !.items = <<>>]

\* The fetch function given to iterator.NewPageInfo: it appends the results
\* of InternalFetch to the buffer. PageInfo.fill keeps the token, and on an
\* error clears the buffer.
fill(st) ==
    LET r == InternalFetch(st.Token) IN
    IF r.err # "nil" THEN [takeBuf(st) EXCEPT !.err = r.err]
    ELSE [st EXCEPT !.items = st.items \o r.results,
                    !.fetched = st.fetched \o r.results,
                    !.Token = r.nextPageToken]

\* nextFunc (PageInfo.next): an error once returned is returned for good;
\* otherwise pages are fetched until the buffer holds an item or the last
\* page has been read, and an empty buffer then is iterator.Done.
RECURSIVE fillLoop(_)
fillLoop(st) ==
    IF bufLen(st) = 0 /\ ~st.atEnd
    THEN LET f == fill(st) IN
         IF f.err # "nil" THEN f
         ELSE fillLoop([f EXCEPT !.atEnd = (f.Token = 0)])
    ELSE st

nextFunc(st) ==
    IF st.err # "nil" THEN st
    ELSE LET l == fillLoop(st) IN
         IF l.err = "nil" /\ bufLen(l) = 0 THEN [l EXCEPT !.err = "Done"] ELSE l

\* Next: (item, err, the iterator afterwards). s is the iterator after
\* nextFunc has run.
DeliveryVehicleIterator_NextKeepsItem(s) ==
    IF s.err # "nil" THEN [item |-> 0, err |-> s.err, it |-> s]
    ELSE [item |-> s.items[1], err |-> "nil", it |-> s]

DeliveryVehicleIterator_Next(s) ==
    IF s.err # "nil" THEN [item |-> 0, err |-> s.err, it |-> s]
    ELSE [item |-> s.items[1], err |-> "nil",
          it |-> [s EXCEPT !.items = SubSeq(s.items, 2, Len(s.items))]]

TaskIterator_Next(s) ==
    IF s.err # "nil" THEN [item |-> 0, err |-> s.err, it |-> s]
    ELSE [item |-> s.items[1], err |-> "nil",
          it |-> [s EXCEPT !.items = SubSeq(s.items, 2, Len(s.items))]]

IterState(it) ==
    [items |-> items[it], fetched |-> fetched[it], Token |-> pageInfo[it].Token,
     atEnd |-> pageInfo[it].atEnd, err |-> pageInfo[it].err]

\* One call of it.Next(), r being what it returns.
NextCalled(it, r) ==
    /\ items' = [items EXCEPT ![it] = r.it.items]
    /\ fetched' = [fetched EXCEPT ![it] = r.it.fetched]
    /\ pageInfo' = [pageInfo EXCEPT ![it] =
                      [Token |-> r.it.Token, atEnd |-> r.it.atEnd, err |-> r.it.err]]
    /\ lastNext' = [lastNext EXCEPT ![it] = [item |-> r.item, err |-> r.err]]
    /\ delivered' = [delivered EXCEPT ![it] =
                       IF r.err = "nil" THEN Append(@, r.item) ELSE @]
    /\ doneSeen' = [doneSeen EXCEPT ![it] = @ \/ r.err = "Done"]
    /\ UNCHANGED <<ctorVars, fetchVars, cacheVars, pages, failAt>>

DeliveryVehicleNext ==
    NextCalled("DeliveryVehicleIterator",
               DeliveryVehicleIterator_Next(nextFunc(IterState("DeliveryVehicleIterator"))))

TaskNext ==
    NextCalled("TaskIterator", TaskIterator_Next(nextFunc(IterState("TaskIterator"))))

InitIter ==
    /\ opts = SharedOptions
    /\ env = [adc |-> TRUE, transport |-> TRUE]
    /\ ctor = NotCalled
    /\ InitFetch /\ InitCache
    /\ pages \in UNION {[1..n -> 0..MaxPageSize] : n \in 1..MaxPages}
    /\ failAt \in 0..Len(pages)
    /\ items = [it \in Iterators |-> <<>>]
    /\ pageInfo = [it \in Iterators |-> [Token |-> 0, atEnd |-> FALSE, err |-> "nil"]]
    /\ fetched = [it \in Iterators |-> <<>>]
    /\ delivered = [it \in Iterators |-> <<>>]
    /\ lastNext = [it \in Iterators |-> [item |-> 0, err |-> "nil"]]
    /\ doneSeen = [it \in Iterators |-> FALSE]

NextIter == DeliveryVehicleNext \/ TaskNext

SpecIter == InitIter /\ [][NextIter]_vars

\* ============================================================== claims
Returned(p) == pc[p] = "done"
GotToken(p) == pc[p] = "done" /\ outcome[p] = "token"
\* Call p returns on this step; returned' is what it returns.
Returns(p) == pc[p] # "done" /\ pc'[p] = "done"
IsCancellation(err) ==
    err.kind = "cancelled" \/ err.cause \in CtxCauses
\* The exchange is one Token answers with an error: the transport failed, the
\* status is not 2xx, or the body does not unmarshal.
ExchangeFailed(resp) ==
    \/ resp.cause # ""
    \/ resp.StatusCode < 200 \/ resp.StatusCode > 299
    \/ generateIDTokenResponse(resp.body).err # ""

\* --------------------------------------------------------------------- C1
\* C1 (single-flight refresh). At no time is more than one fetch in flight
\* for the cache. Within one refresh cycle (from the cache being empty, or
\* from its token expiring, to the next expiry) a Token call begins only
\* first or after one that failed, so a cycle whose fetch succeeds makes
\* exactly one outbound call however many getToken calls run concurrently;
\* and the tokens handed out and not yet expired are one and the same, the
\* cached one.
C1_SingleFlight ==
    /\ Cardinality({p \in Calls : pc[p] = "fetching"}) <= 1
    /\ Cardinality({p \in Calls : request[p] # <<>>}) <= 1
    /\ cycleFetches <= cycleFailures + 1
    /\ cycleFailures = 0 => cycleFetches <= 1
    /\ live # {} => (live = {cachedToken} /\ cycleFetches = cycleFailures + 1)

\* Two calls ran concurrently on the empty cache (the second waited while
\* the first fetched), one fetch was made, and both hold its token.
C1_Witness ==
    /\ now = 0 /\ cycleFetches = 1 /\ cycleFailures = 0
    /\ GotToken(1) /\ GotToken(2) /\ overlap[2]
    /\ live = {cachedToken}

\* --------------------------------------------------------------------- C2
\* C2 (refresh at expiry). A getToken call that looks at the cache after the
\* cached token's expiry has passed starts one fetch (one request, and no
\* other in flight), and the token that fetch yields replaces the cached
\* one, expiring one token lifetime after it was issued; a call that looks
\* before the expiry instant returns the cached token as it is, and no
\* request is sent.
LooksUp(p) == pc[p] = "waiting" /\ pc'[p] # "waiting" /\ ~ctxDone'[p]
C2_RefreshAtExpiry ==
    [][\A p \in Calls :
         /\ (LooksUp(p) /\ ~cachedToken.nil /\ now > cachedToken.Expiry)
              => /\ pc'[p] = "fetching"
                 /\ request'[p] # <<>>
                 /\ \A q \in Calls \ {p} : request'[q] = <<>>
                 /\ cycleFetches' = cycleFetches + 1
         /\ (LooksUp(p) /\ ~cachedToken.nil /\ now < cachedToken.Expiry)
              => /\ pc'[p] = "done"
                 /\ returned' = [call |-> p, tok |-> cachedToken, err |-> NoErr]
                 /\ request' = request
                 /\ cachedToken' = cachedToken
         /\ (pc[p] = "fetching" /\ Returns(p) /\ returned'.err = NoErr)
              => /\ returned'.call = p
                 /\ cachedToken' = returned'.tok
                 /\ cachedToken'.Expiry = now + TokenLifetime
      ]_vars

\* Call 1 fetched at time 0, call 2 was served from the cache without
\* waiting on any fetch, and call 3, looking after the expiry has passed, is
\* fetching.
C2_Witness ==
    /\ GotToken(1) /\ GotToken(2) /\ ~overlap[2]
    /\ cycleFailures = 0
    /\ ~cachedToken.nil /\ cachedToken.Expiry = TokenLifetime
    /\ now > cachedToken.Expiry
    /\ pc[3] = "fetching" /\ request[3] # <<>>

\* --------------------------------------------------------------------- C3
\* C3 (freshness). Whenever getToken returns a token, it is the token of the
\* latest fetch that succeeded, and its expiry has not passed.
C3_ReturnsLatestUnexpired ==
    [][\A p \in Calls :
         (Returns(p) /\ returned'.err = NoErr)
         => /\ returned'.call = p
            /\ ~returned'.tok.nil
            /\ returned'.tok = lastFetched'
            /\ ~(now' > returned'.tok.Expiry)
      ]_vars

\* The first token has expired, and the latest call to return holds the
\* token that was fetched after it.
C3_Witness ==
    \E p, q \in Calls :
        /\ p # q /\ GotToken(p) /\ GotToken(q)
        /\ returned.call = q /\ returned.tok = lastFetched
        /\ returned.tok.Expiry > TokenLifetime + 1
        /\ now < returned.tok.Expiry

\* --------------------------------------------------------------------- C4
\* C4 (a failed fetch). When the exchange of a getToken call fails, the call
\* returns an error and no token, the cache slot is as it was, the refresh
\* is released and no second request is sent by that call; and a call that
\* then finds the cache without a valid token starts a fetch of its own.
C4_FailureLeavesCache ==
    [][\A p \in Calls :
         /\ (pc[p] = "fetching" /\ Returns(p) /\ reply[p] # <<>> /\ ~ctxDone'[p]
             /\ ExchangeFailed(reply[p][1]))
              => /\ returned'.call = p
                 /\ returned'.err # NoErr /\ returned'.tok.nil
                 /\ cachedToken' = cachedToken
                 /\ fetcher' = 0
                 /\ \A q \in Calls : request'[q] = <<>>
                 /\ cycleFetches' = cycleFetches
         /\ (LooksUp(p) /\ cycleFailures > 0 /\ ~Valid(cachedToken, now))
              => pc'[p] = "fetching" /\ request'[p] # <<>>
      ]_vars

\* A call has returned the fetcher's error, the cache is still empty, and
\* the next call is fetching again.
C4_Witness ==
    \E p, q \in Calls :
        /\ Returned(p) /\ outcome[p] = "error" /\ ~ctxDone[p]
        /\ cachedToken.nil /\ cycleFailures > 0
        /\ pc[q] = "fetching" /\ request[q] # <<>>

\* --------------------------------------------------------------------- C5
\* C5 (cancellation). The step on which a call's context ends makes that call
\* return the context's error with no token, and changes neither the cache
\* slot nor any other call, nor leaves the refresh held; a call whose own
\* context has not ended never returns a cancellation error, and a token it
\* returns is the latest one a fetch produced, unexpired.
C5_CancellationIsLocal ==
    [][\A p \in Calls :
         /\ (~ctxDone[p] /\ ctxDone'[p])
              => /\ Returns(p) /\ returned'.call = p
                 /\ IsCancellation(returned'.err) /\ returned'.tok.nil
                 /\ cachedToken' = cachedToken
                 /\ fetcher' # p
                 /\ \A q \in Calls \ {p} : pc'[q] = pc[q] /\ outcome'[q] = outcome[q]
         /\ (Returns(p) /\ ~ctxDone'[p])
              => /\ returned'.call = p
                 /\ ~IsCancellation(returned'.err)
                 /\ returned'.err = NoErr
                      => /\ ~returned'.tok.nil
                         /\ returned'.tok = lastFetched'
                         /\ now' < returned'.tok.Expiry
      ]_vars

\* Call 1 was cancelled in the middle of its fetch while call 2 waited; call
\* 2, its context intact, has then returned a token, the cached one.
C5_Witness ==
    /\ ctxDone[1] /\ Returned(1) /\ outcome[1] = "error" /\ overlap[1] = FALSE
    /\ overlap[2] /\ ~ctxDone[2] /\ GotToken(2)
    /\ returned.call = 2 /\ returned.tok = cachedToken /\ ~cachedToken.nil

\* --------------------------------------------------------------------- C6
ValidConfiguration(o) == ~o.nil /\ o.Audience # "" /\ o.TargetPrincipal # <<>>
\* The collaborators the constructor needs for o answer: none with a client
\* given; else transport construction, and detection when no credentials
\* are given either.
CollaboratorsAnswer(o, e) ==
    o.Client # "nil" \/ (e.transport /\ (o.Credentials # "nil" \/ e.adc))

\* C6 as stated: construction succeeds for every configuration with a
\* non-empty audience and target principal, and fails with a validation
\* error, before any detection or network setup, for every other.
C6_AsStated ==
    ctor.called =>
        /\ ValidConfiguration(opts) => (ctor.err = NoErr /\ ~ctor.creds.nil)
        /\ ~ValidConfiguration(opts)
             => (ctor.err.kind = "validation" /\ ctor.creds.nil /\ ctor.calls = <<>>)

\* C6 (amended). Construction fails with a validation error, before any
\* credential detection or transport construction and with no credential
\* returned, exactly for the configurations with an empty audience or target
\* principal (or no options); for every other it succeeds when the
\* collaborators it needs succeed, and otherwise returns their error and no
\* credential.
C6_Construction ==
    ctor.called =>
        /\ ~ValidConfiguration(opts)
             => (ctor.err.kind = "validation" /\ ctor.creds.nil /\ ctor.calls = <<>>)
        /\ (ValidConfiguration(opts) /\ CollaboratorsAnswer(opts, env))
             => (ctor.err = NoErr /\ ~ctor.creds.nil)
        /\ (ValidConfiguration(opts) /\ ~CollaboratorsAnswer(opts, env))
             => (ctor.err.kind \in {"detect", "newclient"} /\ ctor.creds.nil)

\* An empty target principal was refused although nothing else was missing,
\* and neither detection nor transport construction had been tried.
C6_Witness ==
    /\ ctor.called /\ ctor.err.kind = "validation" /\ ctor.creds.nil
    /\ ~opts.nil /\ opts.Audience # "" /\ opts.TargetPrincipal = <<>>
    /\ opts.Client = "nil" /\ opts.Credentials = "nil" /\ env.adc /\ env.transport
    /\ ctor.calls = <<>>

\* --------------------------------------------------------------------- C7
\* C7 (status errors). A response whose status is outside 200..299 makes
\* Token return an error that carries that status code and the raw body, and
\* no token; and whenever Token returns an error, it returns no token.
C7_StatusError ==
    got # <<>> =>
        /\ (got[1].cause = "" /\ (got[1].StatusCode < 200 \/ got[1].StatusCode > 299))
             => /\ out.err.kind = "status"
                /\ out.err.code = got[1].StatusCode
                /\ out.err.body = got[1].body
                /\ out.tok.nil
        /\ out.err # NoErr => out.tok.nil
        /\ got[1].cause # "" => (out.err.kind = "transport" /\ out.err.cause = got[1].cause)

\* A 403 with the body "permission denied" came back as a status error.
C7_Witness ==
    /\ got # <<>> /\ got[1] = Response(403, BodyText)
    /\ out.err.kind = "status" /\ out.err.code = 403
    /\ out.err.body.text = "permission denied" /\ out.tok.nil

\* --------------------------------------------------------------------- C8
HasTokenString(body) ==
    /\ body.wellformed
    /\ "token" \in DOMAIN body.fields
    /\ body.fields["token"].type = "string"
\* C8 (decode errors). For a 2xx response, Token returns a token only when
\* the body carries a `token` string, its value then being that string; a
\* body of any other shape, one that is valid JSON without a string `token`
\* included, makes Token return a decode error and no token.
C8_DecodeError ==
    (got # <<>> /\ got[1].cause = "" /\ got[1].StatusCode \in 200..299) =>
        IF HasTokenString(got[1].body)
        THEN out.err = NoErr /\ ~out.tok.nil
             /\ out.tok.Value = got[1].body.fields["token"].val
        ELSE out.err.kind = "decode" /\ out.tok.nil

\* --------------------------------------------------------------------- C9
\* C9 (delegate chain). The `delegates` of every request body a provider
\* sends has the length and the order of the chain it was configured with,
\* its i-th element the formatted name of the i-th delegate; with an empty
\* chain the field is absent.
C9_DelegatesInOrder ==
    sent # <<>> =>
        IF Len(opts.Delegates) = 0
        THEN "delegates" \notin DOMAIN sent[1].body
        ELSE /\ "delegates" \in DOMAIN sent[1].body
             /\ Len(sent[1].body.delegates) = Len(opts.Delegates)
             /\ \A i \in 1..Len(opts.Delegates) :
                  sent[1].body.delegates[i] = formatIAMServiceAccountName(opts.Delegates[i])

\* The chain b@x, a@y went out in that order, each name qualified.
C9_Witness ==
    /\ sent # <<>>
    /\ opts.Delegates = << <<"b@x">>, <<"a@y">> >>
    /\ sent[1].body.delegates = << <<SAPrefix, "b@x">>, <<SAPrefix, "a@y">> >>

\* -------------------------------------------------------------------- C10
\* C10 (iterators). For both iterators: once a Next has returned
\* iterator.Done, the latest Next has returned Done and no item; and the
\* items Next has returned, followed by the buffer, are the items fetched, in
\* order: each Next took the buffer's head and only that.
C10_DoneAndOrder ==
    \A it \in Iterators :
        /\ doneSeen[it] => (lastNext[it].err = "Done" /\ lastNext[it].item = 0)
        /\ delivered[it] \o items[it] = fetched[it]
        /\ (lastNext[it].err = "nil" /\ delivered[it] # <<>>)
             => lastNext[it].item = delivered[it][Len(delivered[it])]
        /\ \A i \in 1..Len(delivered[it]) : delivered[it][i] = i

\* Both iterators have delivered three items over two pages and then Done.
C10_Witness ==
    \A it \in Iterators :
        /\ doneSeen[it] /\ lastNext[it].err = "Done"
        /\ delivered[it] = <<1, 2, 3>>
        /\ Len(pages) = 2

====
